---- MODULE Spec2Model ----
(***************************************************************************)
(* MediAssist (src/app.py): a Streamlit script that is re-executed from    *)
(* top to bottom on every user interaction of a browser session.  One      *)
(* script run is modelled as the sequence of its blocks: the prologue      *)
(* (configuration, Firestore client, session identifier), the chat tab,    *)
(* the reminder form, the reminder listing and the clinic search.  The     *)
(* runs of different sessions interleave block by block; the "reminders"   *)
(* collection of the document database is shared by all sessions.          *)
(***************************************************************************)
EXTENDS Integers, Sequences, FiniteSets, TLC

\* ------------------------------------------------------------------ bounds
Sessions == {1, 2}
\* the largest number of documents the collection is let grow to
MaxReminders == 2
\* the largest number of results a places response carries
MaxResults == 6
\* data["results"][:5]
TopN == 5

None == "None"

\* ------------------------------------------------- datetime.time and %H:%M
\* datetime.time values: the form's default is datetime.now().time(), which
\* carries seconds and microseconds; a value picked in the widget has none.
Time(h, m, s, us) == [hour |-> h, minute |-> m, second |-> s, microsecond |-> us]

TimeInputs ==
    { Time(0, 0, 0, 0), Time(9, 5, 0, 0), Time(23, 59, 0, 0), Time(9, 5, 30, 250000) }

\* the values picked in the widget
PickedTimes == { t \in TimeInputs : t.second = 0 /\ t.microsecond = 0 /\ t.hour > 0 }

Digits == <<"0", "1", "2", "3", "4", "5", "6", "7", "8", "9">>

IsDigit(c) == \E i \in 1..10 : Digits[i] = c

DigitVal(c) == (CHOOSE i \in 1..10 : Digits[i] = c) - 1

\* the 12-hour clock in place of the 24-hour one ("%I:%M")
strftime_IM(t) ==
    LET h12 == IF t.hour % 12 = 0 THEN 12 ELSE t.hour % 12
    IN  << Digits[(h12 \div 10) + 1], Digits[(h12 % 10) + 1], ":",
           Digits[(t.minute \div 10) + 1], Digits[(t.minute % 10) + 1] >>

\* t.strftime("%H:%M"): two zero-padded digits, a colon, two zero-padded
\* digits; the seconds and microseconds of t are not written
strftime_HM(t) ==
    << Digits[(t.hour \div 10) + 1], Digits[(t.hour % 10) + 1], ":",
       Digits[(t.minute \div 10) + 1], Digits[(t.minute % 10) + 1] >>

\* %H is the regular expression 2[0-3]|[0-1]\d|\d ; the value or -1
ParseHour(cs) ==
    IF Len(cs) = 2 /\ cs[1] = "2" /\ cs[2] \in {"0", "1", "2", "3"}
      THEN 20 + DigitVal(cs[2])
    ELSE IF Len(cs) = 2 /\ cs[1] \in {"0", "1"} /\ IsDigit(cs[2])
      THEN 10 * DigitVal(cs[1]) + DigitVal(cs[2])
    ELSE IF Len(cs) = 1 /\ IsDigit(cs[1])
      THEN DigitVal(cs[1])
    ELSE -1

\* %M is the regular expression [0-5]\d|\d ; the value or -1
ParseMinute(cs) ==
    IF Len(cs) = 2 /\ cs[1] \in {"0", "1", "2", "3", "4", "5"} /\ IsDigit(cs[2])
      THEN 10 * DigitVal(cs[1]) + DigitVal(cs[2])
    ELSE IF Len(cs) = 1 /\ IsDigit(cs[1])
      THEN DigitVal(cs[1])
    ELSE -1

ColonAt(cs) == { i \in 1..Len(cs) : cs[i] = ":" }

\* datetime.strptime(cs, "%H:%M").time(): the time, or ValueError when the
\* string does not match the format or unconverted data remains
strptime_HM(cs) ==
    IF Cardinality(ColonAt(cs)) # 1 THEN [exc |-> "ValueError"]
    ELSE LET p == CHOOSE i \in ColonAt(cs) : TRUE
             h == ParseHour(SubSeq(cs, 1, p - 1))
             m == ParseMinute(SubSeq(cs, p + 1, Len(cs)))
         IN  IF h < 0 \/ m < 0 THEN [exc |-> "ValueError"]
             ELSE [exc |-> "none", time |-> Time(h, m, 0, 0)]

\* the order of datetime.time values
TimeLeq(a, b) ==
    \/ a.hour < b.hour
    \/ a.hour = b.hour /\ a.minute < b.minute
    \/ a.hour = b.hour /\ a.minute = b.minute /\ a.second < b.second
    \/ a.hour = b.hour /\ a.minute = b.minute /\ a.second = b.second
       /\ a.microsecond =< b.microsecond

\* ------------------------------------------------ the reminders collection
\* A document is a function from field names to values; "time" is a string,
\* held as its sequence of characters.  The collection is kept in the order
\* of created_at (firestore.SERVER_TIMESTAMP), the order of the adds.
NoUser == << >>

\* "user_" + str(datetime.now().timestamp()).replace(".", "")
Timestamps == { <<"1", "7", ".", "5">>, <<"1", "8", ".", "2", "5">> }

NewUserId(ts) == <<"u", "s", "e", "r", "_">> \o SelectSeq(ts, LAMBDA c : c # ".")

\* the document written by add_reminder_to_firestore
ReminderDoc(uid, medicine_name, dosage, reminder_time_str) ==
    [user_id |-> uid, medicine_name |-> medicine_name, dosage |-> dosage,
     time |-> reminder_time_str]

\* documents other clients of the database left in the collection under an
\* identifier a session may come to hold: one without a "time" field, one
\* whose time is not in the format, one in the lenient form strptime accepts
ForeignDocs ==
    LET u == NewUserId(<<"1", "7", ".", "5">>)
    IN  { [user_id |-> u, medicine_name |-> "Syrup", dosage |-> "5ml"],
          [user_id |-> u, medicine_name |-> "Syrup", dosage |-> "5ml",
           time |-> <<"7", "p", "m">>],
          [user_id |-> u, medicine_name |-> "Syrup", dosage |-> "5ml",
           time |-> <<"9", ":", "0", "4">>] }

InitialCollections == { << >> } \cup { << d >> : d \in ForeignDocs }

\* .where("user_id", "==", user_id).order_by("created_at").stream()
WhereUserAll(coll, uid) == coll

WhereUser(coll, uid) == SelectSeq(coll, LAMBDA d : d.user_id = uid)

\* the exception the sort key or the display loop raises on a document
DocError(d) ==
    IF "time" \notin DOMAIN d THEN "KeyError"
    ELSE IF strptime_HM(d.time).exc # "none" THEN "ValueError"
    ELSE IF {"medicine_name", "dosage"} \ DOMAIN d # {} THEN "KeyError"
    ELSE "none"

FirstError(docs) ==
    IF \A i \in 1..Len(docs) : DocError(docs[i]) = "none" THEN "none"
    ELSE LET bad == { i \in 1..Len(docs) : "time" \notin DOMAIN docs[i]
                                            \/ DocError(docs[i]) = "ValueError" }
             i == IF bad # {} THEN CHOOSE j \in bad : \A k \in bad : j =< k
                  ELSE CHOOSE j \in 1..Len(docs) : DocError(docs[j]) # "none"
         IN  DocError(docs[i])

SortKey(d) == strptime_HM(d.time).time

\* x put behind every element whose key is not greater (a stable insertion)
RECURSIVE Insert(_, _)
Insert(x, sorted) ==
    IF sorted = << >> THEN << x >>
    ELSE IF TimeLeq(SortKey(sorted[Len(sorted)]), SortKey(x)) THEN Append(sorted, x)
    ELSE Append(Insert(x, SubSeq(sorted, 1, Len(sorted) - 1)), sorted[Len(sorted)])

RECURSIVE SortFrom(_, _)
SortFrom(docs, acc) ==
    IF docs = << >> THEN acc ELSE SortFrom(Tail(docs), Insert(Head(docs), acc))

\* the records left in the order they were fetched
sorted_reminders_unsorted(user_reminders) == user_reminders

\* sorted(user_reminders, key=lambda x: strptime(x["time"], "%H:%M").time())
sorted_reminders(user_reminders) == SortFrom(user_reminders, << >>)

\* one row of display_data
DisplayRow(reminder) ==
    [Medicine |-> reminder.medicine_name, Dosage |-> reminder.dosage,
     Time |-> reminder.time]

display_data_of(user_reminders) ==
    LET sr == sorted_reminders(user_reminders)
    IN  [i \in 1..Len(sr) |-> DisplayRow(sr[i])]

\* ------------------------------------------------------ the places search
\* A place of the response is a function from field names to strings.
Place(i) ==
    [name |-> "clinic" \o ToString(i), formatted_address |-> "road" \o ToString(i),
     rating |-> "4.5", place_id |-> "id" \o ToString(i)]

Without(place, f) == [k \in (DOMAIN place) \ {f} |-> place[k]]

\* n results, the one at position b (if any) lacking field f
Results(n, b, f) == [i \in 1..n |-> IF i = b THEN Without(Place(i), f) ELSE Place(i)]

ResultLists ==
    { Results(n, b, f) : n \in 0..MaxResults, b \in {0, 1, TopN + 1}, f \in {"name", "rating"} }

\* what requests.get(...) and response.json() can come to: a transport or
\* HTTP error, a body that is no JSON, or a JSON value of some shape
PlacesResponses ==
    { [kind |-> "http_error"], [kind |-> "bad_json"], [kind |-> "json_array"],
      [kind |-> "json_object"], [kind |-> "json_object_results_string"] }
    \cup { [kind |-> "json_object_results", results |-> r] : r \in ResultLists }

\* place.get(k), with "N/A" the default of rating
Get(place, k) == IF k \in DOMAIN place THEN place[k] ELSE None

Truthy(v) == v # None /\ v # ""

ClinicOf(place) ==
    [name |-> place.name, address |-> place.formatted_address,
     rating |-> IF "rating" \in DOMAIN place THEN place.rating ELSE "N/A",
     link |-> << "https://www.google.com/maps/search/?api=1&query=", place.name, ",",
                 place.formatted_address, "&query_place_id=", place.place_id >>]

Complete(place) ==
    Truthy(Get(place, "name")) /\ Truthy(Get(place, "formatted_address"))
    /\ Truthy(Get(place, "place_id"))

Take(seq, n) == SubSeq(seq, 1, IF Len(seq) < n THEN Len(seq) ELSE n)

\* the loop over data["results"][:5]
Clinics(results) ==
    LET kept == SelectSeq(Take(results, TopN), Complete)
    IN  [i \in 1..Len(kept) |-> ClinicOf(kept[i])]

\* find_nearby_clinics past the key check: the clinics returned, the message
\* shown and the exception that escapes
find_nearby_clinics(resp) ==
    CASE resp.kind = "http_error" ->
           { [clinics |-> << >>, msg |-> "error: connecting to Google Maps API", exc |-> "none"] }
      [] resp.kind = "bad_json" ->
           \* requests raises its own JSONDecodeError, a RequestException, or
           \* (older releases) json.JSONDecodeError
           { [clinics |-> << >>, msg |-> m, exc |-> "none"] :
               m \in { "error: connecting to Google Maps API",
                       "error: decoding JSON response" } }
      [] resp.kind = "json_array" ->
           { [clinics |-> << >>, msg |-> None, exc |-> "AttributeError"] }
      [] resp.kind = "json_object" ->
           { [clinics |-> << >>, msg |-> None, exc |-> "none"] }
      [] resp.kind = "json_object_results_string" ->
           { [clinics |-> << >>, msg |-> None, exc |-> "AttributeError"] }
      [] OTHER ->
           { [clinics |-> Clinics(resp.results), msg |-> None, exc |-> "none"] }

\* ------------------------------------------------------------ the state
VARIABLES
    env,            \* the environment: the two API keys and the credentials path
    reminders,      \* the "reminders" collection, in created_at order
    user_id,        \* st.session_state.user_id of each session
    pc,             \* the block of the script each session's run is at
    button,         \* the widget whose click triggered the run
    db,             \* the Firestore client of the run (FALSE: None)
    inputs,         \* the widget values the run's handler has read
    msgs,           \* the messages the run has shown
    calls,          \* the requests the run has sent to external services
    user_reminders, \* the list get_reminders_from_firestore returned to the run
    display_data,   \* the rows the run passed to st.table
    response,       \* the places response the run received
    clinics,        \* the clinics find_nearby_clinics returned to the run
    exc             \* the uncaught exception that ended the run

vars == << env, reminders, user_id, pc, button, db, inputs, msgs, calls,
           user_reminders, display_data, response, clinics, exc >>

Buttons == {"rerun", "Get Health Advice", "Add Reminder", "Search Clinics"}

Credentials == {"unset", "no_such_file", "not_a_key_file", "ok"}

Environments ==
    [GEMINI_API_KEY : BOOLEAN, GOOGLE_MAPS_API_KEY : BOOLEAN,
     FIRESTORE_CREDENTIALS : Credentials]

NoResponse == [kind |-> "none"]

\* the widgets as a run finds them before a handler reads them
NoInputs ==
    [user_symptom_input |-> "", medicine_name |-> "", dosage |-> "",
     reminder_time |-> Time(0, 0, 0, 0), location_input |-> ""]

InitSessions ==
    /\ user_id = [s \in Sessions |-> NoUser]
    /\ pc = [s \in Sessions |-> "idle"]
    /\ button = [s \in Sessions |-> "rerun"]
    /\ db = [s \in Sessions |-> FALSE]
    /\ inputs = [s \in Sessions |-> NoInputs]
    /\ msgs = [s \in Sessions |-> {}]
    /\ calls = [s \in Sessions |-> << >>]
    /\ user_reminders = [s \in Sessions |-> << >>]
    /\ display_data = [s \in Sessions |-> << >>]
    /\ response = [s \in Sessions |-> NoResponse]
    /\ clinics = [s \in Sessions |-> << >>]
    /\ exc = [s \in Sessions |-> "none"]

Init ==
    /\ env \in Environments
    /\ reminders \in InitialCollections
    /\ InitSessions

\* ------------------------------------------------- lines 12-39 and 171-174
\* the st.error calls of the module-level configuration
StartupMsgs(e) ==
    (IF e.GEMINI_API_KEY THEN {}
     ELSE {"error: DEBUG: GEMINI_API_KEY is None", "error: Gemini API Key not found"})
    \cup
    (CASE e.FIRESTORE_CREDENTIALS = "ok" -> {}
       [] e.FIRESTORE_CREDENTIALS = "no_such_file" ->
            {"error: Firestore credentials file not found"}
       \* os.path.exists(None) raises TypeError; a file that is no service
       \* account key makes from_service_account_json raise
       [] OTHER -> {"error: Error initializing Firestore"})

\* a client built whatever the credentials are
FirestoreClientAlways(e) == TRUE

\* db is a client exactly when the credentials file exists and loads
FirestoreClient(e) == e.FIRESTORE_CREDENTIALS = "ok"

\* an identifier drawn afresh on every run
SessionUserIdFresh(old, ts) == NewUserId(ts)

\* if "user_id" not in st.session_state: st.session_state.user_id = ...
SessionUserId(old, ts) == IF old = NoUser THEN NewUserId(ts) ELSE old

Running == {"tab1", "tab2", "list", "tab3"}

\* the adds of runs under way that have not reached the collection yet
PendingAdds ==
    Cardinality({ s \in Sessions : pc[s] \in {"tab1", "tab2"} /\ button[s] = "Add Reminder" })

\* a run starts on an interaction with one of the widgets B
Prologue(s, B) ==
    /\ pc[s] \notin Running
    /\ \E b \in B, ts \in Timestamps :
         /\ b = "Add Reminder" => Len(reminders) + PendingAdds < MaxReminders
         /\ button' = [button EXCEPT ![s] = b]
         /\ user_id' = [user_id EXCEPT ![s] = SessionUserId(user_id[s], ts)]
    /\ db' = [db EXCEPT ![s] = FirestoreClient(env)]
    /\ inputs' = [inputs EXCEPT ![s] = NoInputs]
    /\ msgs' = [msgs EXCEPT ![s] = StartupMsgs(env)]
    /\ calls' = [calls EXCEPT ![s] = << >>]
    /\ user_reminders' = [user_reminders EXCEPT ![s] = << >>]
    /\ display_data' = [display_data EXCEPT ![s] = << >>]
    /\ response' = [response EXCEPT ![s] = NoResponse]
    /\ clinics' = [clinics EXCEPT ![s] = << >>]
    /\ exc' = [exc EXCEPT ![s] = "none"]
    /\ pc' = [pc EXCEPT ![s] = "tab1"]
    /\ UNCHANGED << env, reminders >>

\* ---------------------------------------------------------- lines 178-190
Call(svc, ok) == [svc |-> svc, ok |-> ok]

\* get_gemini_response: what send_message can come to.  Without the key the
\* library fails before or after sending; with it the call is sent and
\* either answers, answers without text (response.text raises) or fails.
get_gemini_response(e) ==
    IF e.GEMINI_API_KEY
      THEN { [sent |-> TRUE, ok |-> TRUE, text |-> "info: reply"],
             [sent |-> TRUE, ok |-> TRUE, text |-> "info: Error communicating with Gemini API"],
             [sent |-> TRUE, ok |-> FALSE, text |-> "info: Error communicating with Gemini API"] }
      ELSE { [sent |-> x, ok |-> FALSE, text |-> "info: Error communicating with Gemini API"] :
               x \in BOOLEAN }

\* a handler that goes on whatever the field holds
HasInputAlways(text) == TRUE

\* if user_symptom_input: / if location_input: / if medicine_name and dosage
HasInput(text) == text # ""

Tab1(s) ==
    /\ pc[s] = "tab1"
    /\ IF button[s] = "Get Health Advice"
         THEN \E user_symptom_input \in {"", "fever"} :
                /\ inputs' = [inputs EXCEPT ![s].user_symptom_input = user_symptom_input]
                /\ IF HasInput(user_symptom_input)
                     THEN \E o \in get_gemini_response(env) :
                            /\ msgs' = [msgs EXCEPT ![s] = @ \cup {o.text}]
                            /\ calls' = [calls EXCEPT ![s] =
                                 IF o.sent THEN Append(@, Call("chat", o.ok)) ELSE @]
                     ELSE /\ msgs' = [msgs EXCEPT ![s] =
                                        @ \cup {"warning: enter your symptoms"}]
                          /\ UNCHANGED calls
         ELSE UNCHANGED << inputs, msgs, calls >>
    /\ pc' = [pc EXCEPT ![s] = "tab2"]
    /\ UNCHANGED << env, reminders, user_id, button, db, user_reminders, display_data,
                    response, clinics, exc >>

\* ------------------------------------------- lines 52-81 and lines 192-233
\* an add whose write is sent a second time when the first attempt fails
add_reminder_retrying(dbv, coll, doc) ==
    IF ~dbv
      THEN { [ret |-> FALSE, coll |-> coll, calls |-> << >>,
              msgs |-> {"error: Firestore is not initialized. Cannot add reminder."}] }
      ELSE { [ret |-> TRUE, coll |-> Append(coll, doc), msgs |-> {},
              calls |-> << Call("firestore.add", TRUE) >>],
             [ret |-> TRUE, coll |-> Append(coll, doc), msgs |-> {},
              calls |-> << Call("firestore.add", FALSE), Call("firestore.add", TRUE) >>] }

\* an add that replaces the session's earlier reminder of the same medicine
add_reminder_upsert(dbv, coll, doc) ==
    IF ~dbv
      THEN { [ret |-> FALSE, coll |-> coll, calls |-> << >>,
              msgs |-> {"error: Firestore is not initialized. Cannot add reminder."}] }
      ELSE { [ret |-> TRUE, msgs |-> {}, calls |-> << Call("firestore.add", TRUE) >>,
              coll |-> Append(SelectSeq(coll, LAMBDA d :
                                 ~(d.user_id = doc.user_id
                                   /\ d.medicine_name = doc.medicine_name)), doc)],
             [ret |-> FALSE, coll |-> coll, calls |-> << Call("firestore.add", FALSE) >>,
              msgs |-> {"error: Error adding reminder to Firestore"}] }

\* add_reminder_to_firestore: the value returned, the collection afterwards,
\* the messages shown and the requests sent
add_reminder_to_firestore(dbv, coll, doc) ==
    IF ~dbv
      THEN { [ret |-> FALSE, coll |-> coll, calls |-> << >>,
              msgs |-> {"error: Firestore is not initialized. Cannot add reminder."}] }
      ELSE { [ret |-> TRUE, coll |-> Append(coll, doc), msgs |-> {},
              calls |-> << Call("firestore.add", TRUE) >>],
             [ret |-> FALSE, coll |-> coll, calls |-> << Call("firestore.add", FALSE) >>,
              msgs |-> {"error: Error adding reminder to Firestore"}] }

\* get_reminders_from_firestore: the list returned, the messages shown and
\* the requests sent
get_reminders_from_firestore(dbv, coll, uid) ==
    IF ~dbv
      THEN { [ret |-> << >>, calls |-> << >>,
              msgs |-> {"error: Firestore is not initialized. Cannot retrieve reminders."}] }
      ELSE { [ret |-> WhereUser(coll, uid), msgs |-> {},
              calls |-> << Call("firestore.query", TRUE) >>],
             [ret |-> << >>, calls |-> << Call("firestore.query", FALSE) >>,
              msgs |-> {"error: Error fetching reminders from Firestore"}] }

\* st.session_state.user_id, as passed to add_reminder_to_firestore
AddUserId(s) == user_id[s]

\* the form submitting one of the times T
Tab2Form(s, T) ==
    /\ pc[s] = "tab2"
    /\ IF button[s] = "Add Reminder"
         THEN \E medicine_name \in {"", "Aspirin"}, dosage \in {"", "1 tablet"},
                 reminder_time \in T :
                /\ inputs' = [inputs EXCEPT ![s].medicine_name = medicine_name,
                                            ![s].dosage = dosage,
                                            ![s].reminder_time = reminder_time]
                \* a datetime.time is always true
                /\ IF HasInput(medicine_name) /\ HasInput(dosage)
                     THEN LET reminder_time_str == strftime_HM(reminder_time)
                              doc == ReminderDoc(AddUserId(s), medicine_name, dosage,
                                                 reminder_time_str)
                          IN  \E o \in add_reminder_to_firestore(db[s], reminders, doc) :
                                /\ reminders' = o.coll
                                /\ calls' = [calls EXCEPT ![s] = @ \o o.calls]
                                /\ msgs' = [msgs EXCEPT ![s] = @ \cup o.msgs \cup
                                     (IF o.ret THEN {"success: Reminder added"}
                                      ELSE {"error: Failed to add reminder."})]
                     ELSE /\ msgs' = [msgs EXCEPT ![s] =
                                        @ \cup {"warning: fill in all fields"}]
                          /\ UNCHANGED << reminders, calls >>
         ELSE UNCHANGED << reminders, inputs, msgs, calls >>
    /\ pc' = [pc EXCEPT ![s] = "list"]
    /\ UNCHANGED << env, user_id, button, db, user_reminders, display_data, response,
                    clinics, exc >>

Tab2List(s) ==
    /\ pc[s] = "list"
    /\ \E o \in get_reminders_from_firestore(db[s], reminders, user_id[s]) :
         LET err == FirstError(o.ret)
         IN  /\ calls' = [calls EXCEPT ![s] = @ \o o.calls]
             /\ user_reminders' = [user_reminders EXCEPT ![s] = o.ret]
             /\ IF o.ret = << >>
                  THEN /\ msgs' = [msgs EXCEPT ![s] =
                                     @ \cup o.msgs \cup {"info: No medicine reminders set yet"}]
                       /\ pc' = [pc EXCEPT ![s] = "tab3"]
                       /\ UNCHANGED << display_data, exc >>
                ELSE IF err # "none"
                  THEN \* the exception leaves the script: the run ends here
                       /\ msgs' = [msgs EXCEPT ![s] = @ \cup o.msgs]
                       /\ exc' = [exc EXCEPT ![s] = err]
                       /\ pc' = [pc EXCEPT ![s] = "crashed"]
                       /\ UNCHANGED display_data
                ELSE /\ msgs' = [msgs EXCEPT ![s] = @ \cup o.msgs \cup {"table"}]
                     /\ display_data' = [display_data EXCEPT ![s] = display_data_of(o.ret)]
                     /\ pc' = [pc EXCEPT ![s] = "tab3"]
                     /\ UNCHANGED exc
    /\ UNCHANGED << env, reminders, user_id, button, db, inputs, response, clinics >>

\* ---------------------------------------------- lines 84-122 and 235-254
\* if not GOOGLE_MAPS_API_KEY: st.error(...); return []
MapsKeySet(e) == e.GOOGLE_MAPS_API_KEY

Tab3(s) ==
    /\ pc[s] = "tab3"
    /\ IF button[s] = "Search Clinics"
         THEN \E location_input \in {"", "Lucknow"} :
           /\ inputs' = [inputs EXCEPT ![s].location_input = location_input]
           /\ IF ~HasInput(location_input)
                THEN /\ msgs' = [msgs EXCEPT ![s] =
                                   @ \cup {"warning: enter a city or pin code"}]
                     /\ pc' = [pc EXCEPT ![s] = "done"]
                     /\ UNCHANGED << calls, response, clinics, exc >>
              ELSE IF ~MapsKeySet(env)
                THEN /\ msgs' = [msgs EXCEPT ![s] =
                          @ \cup {"error: Google Maps API Key is not set",
                                  "info: No clinics found"}]
                     /\ pc' = [pc EXCEPT ![s] = "done"]
                     /\ UNCHANGED << calls, response, clinics, exc >>
              ELSE \E resp \in PlacesResponses : \E o \in find_nearby_clinics(resp) :
                     /\ calls' = [calls EXCEPT ![s] =
                                    Append(@, Call("places", resp.kind # "http_error"))]
                     /\ response' = [response EXCEPT ![s] = resp]
                     /\ exc' = [exc EXCEPT ![s] = o.exc]
                     /\ clinics' = [clinics EXCEPT ![s] = o.clinics]
                     /\ pc' = [pc EXCEPT ![s] = IF o.exc = "none" THEN "done" ELSE "crashed"]
                     /\ msgs' = [msgs EXCEPT ![s] = @ \cup
                          (IF o.exc # "none" THEN {}
                           ELSE (IF o.msg = None THEN {} ELSE {o.msg}) \cup
                                (IF o.clinics = << >> THEN {"info: No clinics found"}
                                 ELSE {"clinics"}))]
         ELSE /\ pc' = [pc EXCEPT ![s] = "done"]
              /\ UNCHANGED << inputs, msgs, calls, response, clinics, exc >>
    /\ UNCHANGED << env, reminders, user_id, button, db, user_reminders, display_data >>

\* ------------------------------------------------------ the specifications
\* One session, every widget, every environment, every response.
Next ==
    \/ Prologue(1, Buttons)
    \/ Tab1(1)
    \/ Tab2Form(1, TimeInputs)
    \/ Tab2List(1)
    \/ Tab3(1)

Spec == Init /\ [][Next]_vars

\* Two sessions whose runs interleave block by block, on the reminders tab,
\* with the configuration complete and the collection empty at the start.
InitSessionsOnly ==
    /\ env = [GEMINI_API_KEY |-> TRUE, GOOGLE_MAPS_API_KEY |-> TRUE,
              FIRESTORE_CREDENTIALS |-> "ok"]
    /\ reminders = << >>
    /\ InitSessions

NextSessions ==
    \E s \in Sessions :
        \/ Prologue(s, {"rerun", "Add Reminder"})
        \/ Tab1(s)
        \/ Tab2Form(s, PickedTimes)
        \/ Tab2List(s)
        \/ Tab3(s)

SpecSessions == InitSessionsOnly /\ [][NextSessions]_vars

\* ---------------------------------------------------------- the properties
Range(seq) == { seq[i] : i \in 1..Len(seq) }

Count(seq, x) == Cardinality({ i \in 1..Len(seq) : seq[i] = x })

\* the same elements the same number of times
SameBag(a, b) ==
    /\ Len(a) = Len(b)
    /\ \A x \in Range(a) \cup Range(b) : Count(a, x) = Count(b, x)

Services(s) == [i \in 1..Len(calls[s]) |-> calls[s][i].svc]

\* the blocks the run of s has been through
ChatRan(s) == button[s] = "Get Health Advice" /\ pc[s] \notin {"idle", "tab1"}

AddRan(s) == button[s] = "Add Reminder" /\ pc[s] \notin {"idle", "tab1", "tab2"}

ListRan(s) == pc[s] \in {"tab3", "done", "crashed"}

SearchRan(s) ==
    /\ button[s] = "Search Clinics"
    /\ pc[s] = "done" \/ (pc[s] = "crashed" /\ response[s].kind # "none")

Added(s) == "success: Reminder added" \in msgs[s]

TableShown(s) == "table" \in msgs[s]

FieldsFilled(s) == inputs[s].medicine_name # "" /\ inputs[s].dosage # ""

ToTheMinute(t) == [t EXCEPT !.second = 0, !.microsecond = 0]

\* C1 (as amended): the stored string parses back to the submitted time cut
\* to the whole minute, hence to the submitted time itself when that carries
\* no seconds or microseconds; and the Time column of the rendered table
\* holds the stored strings of the fetched records.
C1_RoundTripToTheMinute ==
    \A s \in Sessions :
      /\ Added(s) =>
           LET t == inputs[s].reminder_time
               back == strptime_HM(reminders[Len(reminders)].time)
           IN  /\ back.exc = "none"
               /\ back.time = ToTheMinute(t)
               /\ (t.second = 0 /\ t.microsecond = 0) => back.time = t
      /\ TableShown(s) =>
           SameBag([i \in 1..Len(display_data[s]) |-> display_data[s][i].Time],
                   [i \in 1..Len(user_reminders[s]) |-> user_reminders[s][i].time])

\* a time with seconds was submitted, stored and shown in the table
C1_Witness ==
    \E s \in Sessions :
      /\ Added(s) /\ TableShown(s)
      /\ inputs[s].reminder_time.second # 0
      /\ reminders[Len(reminders)].time \in
           { display_data[s][i].Time : i \in 1..Len(display_data[s]) }

\* C1 (as stated): the stored string parses back to the very time submitted.
C1_RoundTripExact ==
    \A s \in Sessions :
      Added(s) =>
        strptime_HM(reminders[Len(reminders)].time).time = inputs[s].reminder_time

\* C2: the rows passed to st.table are a permutation of the fetched list and
\* ascend by their parsed time.
C2_TableSortedPermutation ==
    \A s \in Sessions :
      TableShown(s) =>
        /\ SameBag(display_data[s],
                   [i \in 1..Len(user_reminders[s]) |-> DisplayRow(user_reminders[s][i])])
        /\ \A i \in 1..(Len(display_data[s]) - 1) :
             TimeLeq(strptime_HM(display_data[s][i].Time).time,
                     strptime_HM(display_data[s][i + 1].Time).time)

\* a table of records that were fetched out of time order
C2_Witness ==
    \E s \in Sessions :
      /\ TableShown(s)
      /\ Len(user_reminders[s]) >= 2
      /\ ~TimeLeq(strptime_HM(user_reminders[s][1].time).time,
                  strptime_HM(user_reminders[s][2].time).time)

FirestoreErrors ==
    {"error: Firestore credentials file not found", "error: Error initializing Firestore"}

\* C3: an operation whose configuration value is absent shows an error and
\* returns its failure result, no exception escapes from it, and with all
\* three values absent no run ends in an exception.
C3_MissingConfigShowsError ==
    \A s \in Sessions :
      /\ pc[s] # "idle" =>
           /\ ~env.GEMINI_API_KEY => "error: Gemini API Key not found" \in msgs[s]
           /\ env.FIRESTORE_CREDENTIALS # "ok" =>
                ~db[s] /\ msgs[s] \cap FirestoreErrors # {}
      /\ (ChatRan(s) /\ ~env.GEMINI_API_KEY /\ inputs[s].user_symptom_input # "") =>
           /\ "info: Error communicating with Gemini API" \in msgs[s]
           /\ "info: reply" \notin msgs[s]
      /\ (AddRan(s) /\ env.FIRESTORE_CREDENTIALS # "ok" /\ FieldsFilled(s)) =>
           /\ "error: Firestore is not initialized. Cannot add reminder." \in msgs[s]
           /\ "error: Failed to add reminder." \in msgs[s]
           /\ ~Added(s)
           /\ "firestore.add" \notin Range(Services(s))
      /\ (ListRan(s) /\ env.FIRESTORE_CREDENTIALS # "ok") =>
           /\ "error: Firestore is not initialized. Cannot retrieve reminders." \in msgs[s]
           /\ user_reminders[s] = << >>
           /\ ~TableShown(s)
           /\ "firestore.query" \notin Range(Services(s))
      /\ (SearchRan(s) /\ ~env.GOOGLE_MAPS_API_KEY /\ inputs[s].location_input # "") =>
           /\ "error: Google Maps API Key is not set" \in msgs[s]
           /\ clinics[s] = << >>
           /\ "places" \notin Range(Services(s))
      /\ exc[s] # "none" =>
           IF response[s].kind # "none" THEN env.GOOGLE_MAPS_API_KEY
           ELSE env.FIRESTORE_CREDENTIALS = "ok"
      /\ (~env.GEMINI_API_KEY /\ ~env.GOOGLE_MAPS_API_KEY
          /\ env.FIRESTORE_CREDENTIALS # "ok") => pc[s] # "crashed"

\* a search made to its end with none of the three values set
C3_Witness ==
    \E s \in Sessions :
      /\ ~env.GEMINI_API_KEY /\ ~env.GOOGLE_MAPS_API_KEY
      /\ env.FIRESTORE_CREDENTIALS = "unset"
      /\ pc[s] = "done" /\ button[s] = "Search Clinics"
      /\ inputs[s].location_input # ""

\* C4 (as stated): no run ends in an uncaught exception, whatever the chat
\* call, the Firestore calls and the places search come to.
C4_NoUncaughtException ==
    \A s \in Sessions : exc[s] = "none" /\ pc[s] # "crashed"

\* the step of s that submits the form, and the one that lists the reminders
FormStep(s) == pc[s] = "tab2" /\ pc'[s] = "list"

ListStep(s) == pc[s] = "list" /\ pc'[s] # "list"

\* C5: a step either leaves the collection as it is or is a successful add,
\* which keeps every stored record as it was and appends one; and every add
\* that reports success has appended one.
C5_OnlyAddAppends ==
    [][ /\ \/ reminders' = reminders
           \/ \E s \in Sessions :
                /\ FormStep(s) /\ button[s] = "Add Reminder"
                /\ "success: Reminder added" \in msgs'[s]
                /\ Len(reminders') = Len(reminders) + 1
                /\ SubSeq(reminders', 1, Len(reminders)) = reminders
        /\ \A s \in Sessions :
             (FormStep(s) /\ "success: Reminder added" \in msgs'[s]) =>
                Len(reminders') = Len(reminders) + 1
      ]_vars

\* two records stored, then a search that rendered clinics
C5_Witness ==
    \E s \in Sessions :
      /\ Len(reminders) >= 2
      /\ pc[s] = "done" /\ button[s] = "Search Clinics" /\ clinics[s] # << >>

CompleteResults(s) == SelectSeq(response[s].results, Complete)

\* C6 (as stated): whenever the response holds at least five results that
\* carry name, formatted_address and place_id, exactly five clinics are
\* rendered, the first five of them in response order.
C6_TopFiveRendered ==
    \A s \in Sessions :
      (pc[s] = "done" /\ response[s].kind = "json_object_results"
       /\ Len(CompleteResults(s)) >= TopN) =>
         /\ Len(clinics[s]) = TopN
         /\ \A i \in 1..TopN : clinics[s][i].name = CompleteResults(s)[i].name

C8_KeyedBySession ==
    [][ \A s \in Sessions :
          /\ (FormStep(s) /\ reminders' # reminders) =>
               /\ Len(reminders') = Len(reminders) + 1
               /\ reminders'[Len(reminders')].user_id = user_id[s]
          /\ (ListStep(s) /\ Call("firestore.query", TRUE) \in Range(calls'[s])) =>
               LET own == SelectSeq(reminders, LAMBDA d : d.user_id = user_id[s])
               IN  /\ user_reminders'[s] = own
                   /\ own # << >> =>
                        /\ "table" \in msgs'[s]
                        /\ SameBag(display_data'[s],
                                   [i \in 1..Len(own) |-> DisplayRow(own[i])])
      ]_vars

\* two sessions of distinct identifiers, a record of each in the collection,
\* and each shown a table of its one record
C8_Witness ==
    /\ user_id[1] # user_id[2]
    /\ \A s \in Sessions :
         /\ \E i \in 1..Len(reminders) : reminders[i].user_id = user_id[s]
         /\ pc[s] = "done" /\ TableShown(s)
         /\ Len(display_data[s]) < Len(reminders)

\* HH:MM: two digits of an hour below 24, a colon, two digits of a minute
\* below 60
IsHHMM(cs) ==
    /\ Len(cs) = 5 /\ cs[3] = ":"
    /\ \A i \in {1, 2, 4, 5} : IsDigit(cs[i])
    /\ 10 * DigitVal(cs[1]) + DigitVal(cs[2]) < 24
    /\ 10 * DigitVal(cs[4]) + DigitVal(cs[5]) < 60

\* C9: an empty symptom text, an empty location, an empty medicine name or
\* dosage each leave their request unsent and show a warning; and every
\* record the program wrote has a medicine name, a dosage and an HH:MM time.
C9_PresenceChecks ==
    /\ \A s \in Sessions :
         /\ (ChatRan(s) /\ inputs[s].user_symptom_input = "") =>
              /\ "chat" \notin Range(Services(s))
              /\ "warning: enter your symptoms" \in msgs[s]
              /\ msgs[s] \cap {"info: reply", "info: Error communicating with Gemini API"} = {}
         /\ (SearchRan(s) /\ inputs[s].location_input = "") =>
              /\ "places" \notin Range(Services(s))
              /\ "warning: enter a city or pin code" \in msgs[s]
         /\ (AddRan(s) /\ ~FieldsFilled(s)) =>
              /\ "firestore.add" \notin Range(Services(s))
              /\ "warning: fill in all fields" \in msgs[s]
              /\ ~Added(s)
    /\ \A i \in 1..Len(reminders) :
         \/ reminders[i] \in ForeignDocs
         \/ /\ reminders[i].medicine_name # ""
            /\ reminders[i].dosage # ""
            /\ IsHHMM(reminders[i].time)

\* a form submitted without a medicine name after a record was stored
C9_Witness ==
    \E s \in Sessions :
      /\ pc[s] = "done" /\ button[s] = "Add Reminder"
      /\ inputs[s].medicine_name = "" /\ inputs[s].dosage # ""
      /\ \E i \in 1..Len(reminders) : reminders[i] \notin ForeignDocs

\* C10: the first run of a session sets its identifier and no step changes
\* it afterwards; every add writes under it, and every later query that
\* succeeds returns the records stored under it.
C10_UserIdAssignedOnce ==
    [][ \A s \in Sessions :
          /\ user_id[s] # NoUser => user_id'[s] = user_id[s]
          /\ (pc[s] = "idle" /\ pc'[s] # "idle") => user_id'[s] # NoUser
          /\ (FormStep(s) /\ "success: Reminder added" \in msgs'[s]) =>
               reminders'[Len(reminders')].user_id = user_id'[s]
          /\ (ListStep(s) /\ Call("firestore.query", TRUE) \in Range(calls'[s])) =>
               \A i \in 1..Len(reminders) :
                  reminders[i].user_id = user_id'[s] =>
                     reminders[i] \in Range(user_reminders'[s])
      ]_vars

\* a reminder added by an earlier run, listed by a later run of the session
C10_Witness ==
    \E s \in Sessions :
      /\ pc[s] = "done" /\ button[s] = "rerun"
      /\ \E i \in 1..Len(display_data[s]) : display_data[s][i].Medicine = "Aspirin"

====
